---- MODULE Spec2Model ----
(***************************************************************************)
(* Model of the Optionalize derive macro (optionalize-macro/src/lib.rs).   *)
(*                                                                         *)
(* The macro is a single pass over a parsed item: it matches the item's    *)
(* data, classifies every field as (is_ignored, is_optional), builds the   *)
(* field declarations of the generated struct and the field initialisers   *)
(* of the generated to_active method, and emits both together with the     *)
(* OptionalizeTrait link.  The last action runs the emitted to_active on   *)
(* an instance of the generated struct.                                    *)
(*                                                                         *)
(* Encodings.  An identifier is a string; an optional identifier           *)
(* (Field::ident) is <<>> or <<name>>.  A type is a record                 *)
(* [shape, segments, args]: shape is the syn::Type variant, segments the   *)
(* path segments' identifiers (empty unless shape = "Path") and args the   *)
(* nested types.  An attribute is [meta, path]: the syn::Meta variant and  *)
(* the segments of its path.  A run-time value is a sequence of tags that  *)
(* ends in its payload: <<"1">>, <<"None">>, <<"Some", "x">>,              *)
(* <<"Set", "Some", "x">>, <<"Unchanged", "1">>, <<"NotSet">>.             *)
(***************************************************************************)
EXTENDS Naturals, Sequences, FiniteSets, TLC

VARIABLES input, pc, classified, optional_fields, to_active_model_fields,
          expanded, instance, active

vars == <<input, pc, classified, optional_fields, to_active_model_fields,
          expanded, instance, active>>

----------------------------------------------------------------------------
(* Bounds of the model *)

\* largest number of fields of a derived item
MaxFields == 3

\* largest number of attributes on a field (single-field specification)
MaxAttrs == 2

Last(s) == s[Len(s)]

SeqsUpTo(S, n) == UNION {[1..k -> S] : k \in 0..n}

----------------------------------------------------------------------------
(* Types *)

PathType(segs, args) == [shape |-> "Path", segments |-> segs, args |-> args]

OtherType(shape, args) == [shape |-> shape, segments |-> <<>>, args |-> args]

I32 == PathType(<<"i32">>, <<>>)

StringTy == PathType(<<"String">>, <<>>)

\* Option<String>
OptionString == PathType(<<"Option">>, <<StringTy>>)

\* std::option::Option<i32>
StdOptionI32 == PathType(<<"std", "option", "Option">>, <<I32>>)

\* Opt<i32>, where `type Opt<T> = Option<T>`
AliasOptI32 == PathType(<<"Opt">>, <<I32>>)

\* Optional<i32>: a name that only starts with Option
OptionalI32 == PathType(<<"Optional">>, <<I32>>)

\* Option::Inner: a path that starts, but does not end, with Option
OptionInner == PathType(<<"Option", "Inner">>, <<>>)

\* Vec<Option<String>>
VecOptionString == PathType(<<"Vec">>, <<OptionString>>)

\* (Option<String>, i32)
TupleTy == OtherType("Tuple", <<OptionString, I32>>)

\* &'static Option<String>
ReferenceTy == OtherType("Reference", <<OptionString>>)

\* [Option<String>]
SliceTy == OtherType("Slice", <<OptionString>>)

\* the declared types of the multi-field specification
StructTypes == {I32, StringTy, OptionString}

\* the declared types of the single-field specification
FieldTypes == {I32, StringTy, OptionString, StdOptionI32, AliasOptI32,
               OptionalI32, OptionInner, VecOptionString, TupleTy,
               ReferenceTy, SliceTy}

\* the tokens `Option<#field_type>`
OptionOf(ty) == PathType(<<"Option">>, <<ty>>)

----------------------------------------------------------------------------
(* Attributes *)

Attr(meta, path) == [meta |-> meta, path |-> path]

\* #[optionalize_ignore]
IgnoreMarker == Attr("Path", <<"optionalize_ignore">>)

\* #[optionalize_ignore(skip)]
IgnoreList == Attr("List", <<"optionalize_ignore">>)

\* #[optionalize_ignore = "yes"]
IgnoreNameValue == Attr("NameValue", <<"optionalize_ignore">>)

\* #[other::optionalize_ignore]
QualifiedIgnore == Attr("Path", <<"other", "optionalize_ignore">>)

\* #[serde(default)]
SerdeAttr == Attr("List", <<"serde">>)

\* #[non_exhaustive]-like bare attribute of another name
BareOther == Attr("Path", <<"optionalize">>)

FieldAttrs == {IgnoreMarker, IgnoreList, IgnoreNameValue, QualifiedIgnore,
               SerdeAttr, BareOther}

\* syn::Path::is_ident: one segment, equal to the given identifier
IsIdent(path, ident) == Len(path) = 1 /\ path[1] = ident

----------------------------------------------------------------------------
(* Items *)

FieldNames == <<"id", "name", "description", "extra", "more", "last">>

StructNames == {"MyStruct", "Model"}

Field(ident, ty, attrs) == [ident |-> ident, ty |-> ty, attrs |-> attrs]

\* a derive input: kind is the syn::Data variant, style the syn::Fields
\* variant (an enum has variants and no fields of its own)
Item(kind, style, ident, fields) ==
    [kind |-> kind, style |-> style, ident |-> ident, fields |-> fields]

\* the fields of a struct: named ones get the names of FieldNames in order
Fields(style, descs) ==
    [i \in DOMAIN descs |->
        Field(IF style = "Named" THEN <<FieldNames[i]>> ELSE <<>>,
              descs[i][1], descs[i][2])]

ItemsOver(descriptors, n) ==
    {Item("Struct", "Named", name, Fields("Named", ds)) :
        name \in StructNames, ds \in SeqsUpTo(descriptors, n)}
    \cup {Item("Struct", "Unnamed", name, Fields("Unnamed", ds)) :
            name \in StructNames, ds \in SeqsUpTo(descriptors, n) \ {<<>>}}
    \cup {Item("Struct", "Unit", name, <<>>) : name \in StructNames}
    \cup {Item("Enum", "Variants", name, <<>>) : name \in StructNames}
    \cup {Item("Union", "Named", name, Fields("Named", ds)) :
            name \in StructNames, ds \in SeqsUpTo(descriptors, 1)}

\* items of the multi-field specification
StructItems ==
    ItemsOver(StructTypes \X {<<>>, <<IgnoreMarker>>}, MaxFields)

\* items of the single-field specification
FieldItems ==
    ItemsOver(FieldTypes \X SeqsUpTo(FieldAttrs, MaxAttrs), 1)

----------------------------------------------------------------------------
(* The macro *)

NoOutput ==
    [kind |-> "None", message |-> "", struct_name |-> "",
     struct_fields |-> <<>>, to_active |-> <<>>, links |-> <<>>]

\* the suffix put in front of the name instead of behind it
OptionalStructNamePrefixed(struct_name) == "Optional" \o struct_name

\* format!("{}Optional", struct_name)
OptionalStructName(struct_name) == struct_name \o "Optional"

\* segments.first() in place of segments.last()
IsOptionalFirstSegment(ty) ==
    IF ty.shape = "Path"
    THEN IF ty.segments = <<>> THEN FALSE ELSE Head(ty.segments) = "Option"
    ELSE FALSE

\* type_path.path.segments.last().map(|f| f.ident == "Option").unwrap_or(false)
IsOptional(ty) ==
    IF ty.shape = "Path"
    THEN IF ty.segments = <<>> THEN FALSE ELSE Last(ty.segments) = "Option"
    ELSE FALSE

\* the marker looked for on the first attribute only
IsIgnoredFirstAttr(attrs) ==
    IF attrs = <<>> THEN FALSE
    ELSE Head(attrs).meta = "Path" /\ IsIdent(Head(attrs).path, "optionalize_ignore")

\* the loop over field.attrs, returning at the first bare optionalize_ignore
RECURSIVE IsIgnored(_)
IsIgnored(attrs) ==
    IF attrs = <<>> THEN FALSE
    ELSE IF Head(attrs).meta = "Path" /\ IsIdent(Head(attrs).path, "optionalize_ignore")
         THEN TRUE
         ELSE IsIgnored(Tail(attrs))

\* the closure of fields.into_iter().map: (field, is_ignored, is_optional)
ClassifyField(field) ==
    [field |-> field, is_ignored |-> IsIgnored(field.attrs),
     is_optional |-> IsOptional(field.ty)]

\* every field that is not ignored is wrapped, an Option<T> a second time
OptionalFieldDoubleWrap(c) ==
    [ident |-> c.field.ident,
     ty |-> IF ~c.is_ignored THEN OptionOf(c.field.ty) ELSE c.field.ty]

\* the closure of optional_fields: `#field_name: <type>`
OptionalField(c) ==
    [ident |-> c.field.ident,
     ty |-> IF ~c.is_ignored /\ ~c.is_optional
            THEN OptionOf(c.field.ty)
            ELSE c.field.ty]

\* the already optional field converted like a plain one: Set(value)
ToActiveModelFieldNoSome(c) ==
    [ident |-> c.field.ident,
     expr |-> IF c.is_ignored /\ ~c.is_optional THEN "Unchanged" ELSE "MatchSet"]

\* the ignore marker not consulted by the conversion
ToActiveModelFieldNoIgnore(c) ==
    [ident |-> c.field.ident,
     expr |-> IF ~c.is_optional THEN "MatchSet" ELSE "MatchSetSome"]

\* the closure of to_active_model_fields: `#field_name: <expression>`
ToActiveModelField(c) ==
    [ident |-> c.field.ident,
     expr |-> IF c.is_ignored /\ ~c.is_optional THEN "Unchanged"
              ELSE IF ~c.is_ignored /\ ~c.is_optional THEN "MatchSet"
              ELSE "MatchSetSome"]

Reverse(s) == [i \in DOMAIN s |-> s[Len(s) + 1 - i]]

\* the struct's fields emitted in reverse
ExpandedReversed(struct_name, fields, inits) ==
    [kind |-> "Tokens", message |-> "",
     struct_name |-> OptionalStructName(struct_name),
     struct_fields |-> Reverse(fields),
     to_active |-> inits,
     links |-> <<[for |-> struct_name, optional |-> OptionalStructName(struct_name)]>>]

\* the quote! of expanded
Expanded(struct_name, fields, inits) ==
    [kind |-> "Tokens", message |-> "",
     struct_name |-> OptionalStructName(struct_name),
     struct_fields |-> fields,
     to_active |-> inits,
     links |-> <<[for |-> struct_name, optional |-> OptionalStructName(struct_name)]>>]

CompileError ==
    [kind |-> "CompileError", message |-> "Optionalize can only be used on structs",
     struct_name |-> "", struct_fields |-> <<>>, to_active |-> <<>>, links |-> <<>>]

----------------------------------------------------------------------------
(* The emitted code at run time *)

\* sample payloads of a type that is not an Option
Payloads(ty) ==
    IF ty = I32 THEN {<<"1">>, <<"2">>}
    ELSE IF ty = StringTy THEN {<<"x">>}
    ELSE {<<"v">>}

\* the type is the standard Option, by name, by full path or by the alias Opt
IsStdOption(ty) ==
    /\ ty.shape = "Path"
    /\ ty.segments \in {<<"Option">>, <<"std", "option", "Option">>, <<"Opt">>}
    /\ Len(ty.args) = 1

\* the values of a declared type
RECURSIVE ValuesOf(_)
ValuesOf(ty) ==
    IF IsStdOption(ty)
    THEN {<<"None">>} \cup {<<"Some">> \o v : v \in ValuesOf(ty.args[1])}
    ELSE Payloads(ty)

\* the instances of the generated struct
Instances(struct_fields) ==
    {inst \in [DOMAIN struct_fields -> UNION {ValuesOf(struct_fields[i].ty) : i \in DOMAIN struct_fields}] :
        \A i \in DOMAIN struct_fields : inst[i] \in ValuesOf(struct_fields[i].ty)}

\* the optional field's value handed to Set as it is
EvalExprSetRaw(expr, value) ==
    IF expr = "Unchanged" THEN <<"Unchanged">> \o value
    ELSE IF expr = "MatchSet"
         THEN IF Head(value) = "Some" THEN <<"Set">> \o Tail(value) ELSE <<"NotSet">>
         ELSE <<"Set">> \o value

\* the value of one emitted initialiser expression on self.#field_name
EvalExpr(expr, value) ==
    IF expr = "Unchanged" THEN <<"Unchanged">> \o value
    ELSE IF expr = "MatchSet"
         THEN IF Head(value) = "Some" THEN <<"Set">> \o Tail(value) ELSE <<"NotSet">>
         ELSE IF Head(value) = "Some" THEN <<"Set", "Some">> \o Tail(value) ELSE <<"NotSet">>

\* the emitted tokens parse as a struct and an impl: every field has a name
Compiles(out) ==
    /\ out.kind = "Tokens"
    /\ \A i \in DOMAIN out.struct_fields : out.struct_fields[i].ident # <<>>

----------------------------------------------------------------------------
(* Actions *)

InitWith(items) ==
    /\ input \in items
    /\ pc = "match_data"
    /\ classified = <<>>
    /\ optional_fields = <<>>
    /\ to_active_model_fields = <<>>
    /\ expanded = NoOutput
    /\ instance = <<>>
    /\ active = <<>>

Init == InitWith(StructItems)

InitField == InitWith(FieldItems)

\* if let Data::Struct(data_struct) = input.data, then the map over the fields
ClassifyFields ==
    /\ pc = "match_data"
    /\ input.kind = "Struct"
    /\ classified' = [i \in DOMAIN input.fields |-> ClassifyField(input.fields[i])]
    /\ pc' = "optional_fields"
    /\ UNCHANGED <<input, optional_fields, to_active_model_fields, expanded,
                   instance, active>>

\* else: return the compile error
RejectNonStruct ==
    /\ pc = "match_data"
    /\ input.kind # "Struct"
    /\ expanded' = CompileError
    /\ pc' = "done"
    /\ UNCHANGED <<input, classified, optional_fields, to_active_model_fields,
                   instance, active>>

BuildOptionalFields ==
    /\ pc = "optional_fields"
    /\ optional_fields' = [i \in DOMAIN classified |-> OptionalField(classified[i])]
    /\ pc' = "to_active_model_fields"
    /\ UNCHANGED <<input, classified, to_active_model_fields, expanded,
                   instance, active>>

BuildToActiveModelFields ==
    /\ pc = "to_active_model_fields"
    /\ to_active_model_fields' = [i \in DOMAIN classified |-> ToActiveModelField(classified[i])]
    /\ pc' = "expand"
    /\ UNCHANGED <<input, classified, optional_fields, expanded, instance, active>>

Expand ==
    /\ pc = "expand"
    /\ expanded' = Expanded(input.ident, optional_fields, to_active_model_fields)
    /\ pc' = "done"
    /\ UNCHANGED <<input, classified, optional_fields, to_active_model_fields,
                   instance, active>>

\* a caller builds an instance of the generated struct and calls to_active
ToActive ==
    /\ pc = "done"
    /\ Compiles(expanded)
    /\ \E inst \in Instances(expanded.struct_fields) :
        /\ instance' = inst
        /\ active' = [i \in DOMAIN expanded.to_active |->
                        [ident |-> expanded.to_active[i].ident,
                         value |-> EvalExpr(expanded.to_active[i].expr, inst[i])]]
    /\ pc' = "converted"
    /\ UNCHANGED <<input, classified, optional_fields, to_active_model_fields,
                   expanded>>

Next ==
    \/ ClassifyFields
    \/ RejectNonStruct
    \/ BuildOptionalFields
    \/ BuildToActiveModelFields
    \/ Expand
    \/ ToActive

Spec == Init /\ [][Next]_vars

SpecField == InitField /\ [][Next]_vars

----------------------------------------------------------------------------
(* Properties *)

\* the fields have been classified
FieldsClassified == pc \notin {"match_data"} /\ input.kind = "Struct"

\* the struct's field declarations have been built
FieldsBuilt == pc \in {"to_active_model_fields", "expand", "done", "converted"} /\ input.kind = "Struct"

Some(v) == <<"Some">> \o v

\* C1: every generated field keeps its declared type when the field is
\* ignored or already optional, and gets Option<declared type> exactly when
\* it is neither.
C1_FieldTypeByClass ==
    FieldsBuilt =>
        /\ Len(optional_fields) = Len(input.fields)
        /\ \A i \in DOMAIN input.fields :
            LET c == classified[i]
                declared == input.fields[i].ty
                out == optional_fields[i].ty
            IN /\ (c.is_ignored \/ c.is_optional) => out = declared
               /\ (out = OptionOf(declared)) <=> (~c.is_ignored /\ ~c.is_optional)
               /\ expanded.kind = "Tokens" => expanded.struct_fields[i].ty = out

\* an ignored Option, a plain Option and a plain field side by side
C1_Witness ==
    /\ pc = "done"
    /\ Len(classified) = 3
    /\ classified[1].is_ignored /\ classified[1].is_optional
    /\ optional_fields[1].ty = OptionString
    /\ ~classified[2].is_ignored /\ classified[2].is_optional
    /\ optional_fields[2].ty = OptionString
    /\ ~classified[3].is_ignored /\ ~classified[3].is_optional
    /\ optional_fields[3].ty = OptionOf(I32)

\* C2: the generated struct of a struct with N named fields has N fields
\* with the source's names in the source's order, to_active has one
\* initialiser per field in that order, and when no field is ignored or
\* already optional every output field is Option-wrapped.
C2_FieldOrder ==
    (expanded.kind = "Tokens" /\ input.style = "Named") =>
        LET n == Len(input.fields) IN
        /\ Len(expanded.struct_fields) = n
        /\ Len(expanded.to_active) = n
        /\ \A i \in 1..n :
            /\ expanded.struct_fields[i].ident = input.fields[i].ident
            /\ expanded.to_active[i].ident = input.fields[i].ident
        /\ (\A i \in 1..n : ~classified[i].is_ignored /\ ~classified[i].is_optional)
            => \A i \in 1..n : expanded.struct_fields[i].ty = OptionOf(input.fields[i].ty)

\* three plain fields of different types, all wrapped, in order
C2_Witness ==
    /\ expanded.kind = "Tokens"
    /\ input.style = "Named"
    /\ Len(input.fields) = 3
    /\ \A i \in 1..3 : ~classified[i].is_ignored /\ ~classified[i].is_optional
    /\ input.fields[1].ty = I32 /\ input.fields[2].ty = StringTy
    /\ expanded.struct_fields[1] = [ident |-> <<"id">>, ty |-> OptionOf(I32)]
    /\ expanded.struct_fields[2] = [ident |-> <<"name">>, ty |-> OptionOf(StringTy)]

\* C3: to_active maps a field that is not ignored as Some(v) -> Set(v),
\* None -> NotSet when it was not already optional, and as
\* Some(v) -> Set(Some(v)), None -> NotSet when it was; so an instance with
\* every field present gives Set for every such field and one with every
\* optional field absent gives NotSet for every plain one.
C3_SetOrNotSet ==
    pc = "converted" =>
        /\ Len(active) = Len(classified)
        /\ \A i \in DOMAIN classified :
            LET c == classified[i]
                v == instance[i]
                a == active[i].value
            IN ~c.is_ignored =>
                /\ (v = <<"None">>) => a = <<"NotSet">>
                /\ (~c.is_optional /\ Head(v) = "Some") => a = <<"Set">> \o Tail(v)
                /\ (c.is_optional /\ Head(v) = "Some") => a = <<"Set">> \o v
        /\ (\A i \in DOMAIN classified : Head(instance[i]) # "None")
            => \A i \in DOMAIN classified :
                ~classified[i].is_ignored => Head(active[i].value) = "Set"
        /\ (\A i \in DOMAIN classified :
                IsStdOption(expanded.struct_fields[i].ty) => instance[i] = <<"None">>)
            => \A i \in DOMAIN classified :
                (~classified[i].is_ignored /\ ~classified[i].is_optional)
                    => active[i].value = <<"NotSet">>

\* a plain field and an already optional field, both present
C3_Witness ==
    /\ pc = "converted"
    /\ Len(classified) = 2
    /\ ~classified[1].is_ignored /\ ~classified[1].is_optional
    /\ instance[1] = Some(<<"2">>) /\ active[1].value = <<"Set", "2">>
    /\ ~classified[2].is_ignored /\ classified[2].is_optional
    /\ instance[2] = Some(<<"x">>) /\ active[2].value = <<"Set", "Some", "x">>

\* C4: to_active passes the raw value of every ignored field through as
\* Unchanged(value), whether or not the field is already optional.
C4_IgnoredUnchanged ==
    pc = "converted" =>
        \A i \in DOMAIN classified :
            classified[i].is_ignored
                => (i \in DOMAIN active /\ active[i].value = <<"Unchanged">> \o instance[i])

\* the struct id: i32 (ignored), name: String, description: Option<String>
ScenarioFields ==
    Fields("Named", <<<<I32, <<IgnoreMarker>>>>, <<StringTy, <<>>>>, <<OptionString, <<>>>>>>)

\* the instance {id: 1, name: None, description: Some("x")}
ScenarioInstance == <<<<"1">>, <<"None">>, Some(<<"x">>)>>

Scenario ==
    /\ pc = "converted"
    /\ input.kind = "Struct"
    /\ input.fields = ScenarioFields
    /\ instance = ScenarioInstance

\* C5 as stated: the scenario yields id: Unchanged(1), name: NotSet and
\* description: Set("x").
C5_ScenarioAsStated ==
    Scenario =>
        active = <<[ident |-> <<"id">>, value |-> <<"Unchanged", "1">>],
                   [ident |-> <<"name">>, value |-> <<"NotSet">>],
                   [ident |-> <<"description">>, value |-> <<"Set", "x">>]>>

\* C5: the scenario yields id: Unchanged(1), name: NotSet and
\* description: Set(Some("x")).
C5_Scenario ==
    Scenario =>
        active = <<[ident |-> <<"id">>, value |-> <<"Unchanged", "1">>],
                   [ident |-> <<"name">>, value |-> <<"NotSet">>],
                   [ident |-> <<"description">>, value |-> <<"Set", "Some", "x">>]>>

C5_Witness == Scenario /\ Len(active) = 3

\* C6: deriving on an enum, a union or a tuple struct ends in the compile
\* error and emits no struct, no to_active and no trait link.
C6_UnsupportedShape ==
    (pc \in {"done", "converted"} /\ (input.kind # "Struct" \/ input.style = "Unnamed")) =>
        /\ expanded.kind = "CompileError"
        /\ expanded.struct_name = ""
        /\ expanded.struct_fields = <<>>
        /\ expanded.to_active = <<>>
        /\ expanded.links = <<>>

\* C7: a derivation that emits names the generated struct X followed by
\* Optional and emits exactly one link, from X to that struct.
C7_NameAndLink ==
    expanded.kind = "Tokens" =>
        /\ expanded.struct_name = input.ident \o "Optional"
        /\ (input.ident = "MyStruct") => expanded.struct_name = "MyStructOptional"
        /\ (input.ident = "Model") => expanded.struct_name = "ModelOptional"
        /\ Len(expanded.links) = 1
        /\ expanded.links[1] = [for |-> input.ident, optional |-> expanded.struct_name]

C7_Witness ==
    /\ expanded.kind = "Tokens"
    /\ input.ident = "MyStruct"
    /\ input.fields # <<>>
    /\ expanded.links = <<[for |-> "MyStruct", optional |-> "MyStructOptional"]>>

\* the field carries an attribute named exactly optionalize_ignore
HasAttrNamed(field, name) ==
    \E j \in DOMAIN field.attrs : field.attrs[j].path = <<name>>

\* the field carries the bare attribute #[optionalize_ignore]
HasBareMarker(field) ==
    \E j \in DOMAIN field.attrs : field.attrs[j] = IgnoreMarker

\* C8 as stated: a field is ignored iff it carries an attribute named
\* optionalize_ignore, whatever the attribute's arguments.
C8_IgnoredByNameAlone ==
    FieldsClassified =>
        \A i \in DOMAIN classified :
            classified[i].is_ignored <=> HasAttrNamed(input.fields[i], "optionalize_ignore")

\* C8: a field is ignored iff it carries, in any position, the bare
\* attribute optionalize_ignore without arguments.
C8_IgnoredByBareMarker ==
    FieldsClassified =>
        /\ Len(classified) = Len(input.fields)
        /\ \A i \in DOMAIN classified :
            classified[i].is_ignored <=> HasBareMarker(input.fields[i])

\* the marker in second position, behind another attribute
C8_Witness ==
    /\ FieldsClassified
    /\ Len(classified) = 1
    /\ input.fields[1].attrs = <<SerdeAttr, IgnoreMarker>>
    /\ classified[1].is_ignored

\* C9: a field is already optional iff its declared type is a path whose
\* last identifier is Option; an alias and a tuple, slice or reference are
\* not optional.
C9_OptionalByLastIdent ==
    FieldsClassified =>
        /\ Len(classified) = Len(input.fields)
        /\ \A i \in DOMAIN classified :
            LET ty == input.fields[i].ty IN
            /\ classified[i].is_optional <=>
                (ty.shape = "Path" /\ ty.segments # <<>> /\ ty.segments[Len(ty.segments)] = "Option")
            /\ ty = AliasOptI32 => ~classified[i].is_optional
            /\ ty \in {TupleTy, ReferenceTy, SliceTy} => ~classified[i].is_optional

\* std::option::Option<i32> is recognised by its last segment
C9_Witness ==
    /\ FieldsClassified
    /\ Len(classified) = 1
    /\ input.fields[1].ty = StdOptionI32
    /\ classified[1].is_optional

\* C10: for an already optional field to_active gives Set(Some(v)) or
\* NotSet, never Set(None).
C10_NeverSetNone ==
    pc = "converted" =>
        \A i \in DOMAIN classified :
            classified[i].is_optional =>
                /\ i \in DOMAIN active
                /\ \/ active[i].value = <<"NotSet">>
                   \/ /\ Len(active[i].value) >= 3
                      /\ SubSeq(active[i].value, 1, 2) = <<"Set", "Some">>
                /\ active[i].value # <<"Set", "None">>

\* an already optional field holding None
C10_Witness ==
    /\ pc = "converted"
    /\ Len(classified) >= 1
    /\ classified[1].is_optional
    /\ instance[1] = <<"None">>
    /\ active[1].value = <<"NotSet">>

====
